---- MODULE Spec2Model ----
(***************************************************************************)
(* Sailing game (App component, physics helpers, rock field generator).    *)
(*                                                                         *)
(* Numbers.  The program computes in IEEE doubles; the model computes in   *)
(* fixed point:                                                            *)
(*   lengths and speeds   integers in units of 1/Unit pixel                *)
(*   angles               integers in milliradians (PI == 3142)            *)
(*   multipliers          integers in tenths (1.0 is 10)                   *)
(*   Math.random()        a numerator n, standing for n / RndDen, n in      *)
(*                        0 .. RndDen - 1 (Math.random() is in [0, 1))      *)
(*                                                                         *)
(* React.  The state variables hold the value of each useState cell after  *)
(* the updates queued so far have been applied; the ...Ref variables hold  *)
(* what the passive effects last copied into the refs.  Updater functions  *)
(* passed to setBoat run while App renders, so the setLevel / setLives /   *)
(* setHighscoreLevel calls they make belong to the same commit.            *)
(*                                                                         *)
(* Notifications.  The banner text (message) and the timers that set and   *)
(* clear it are written by the handlers and read by none of them.  Each    *)
(* handler is an action on the game state; its setMessage and setTimeout   *)
(* statements are a second action on message and timers (...Notice).       *)
(* Spec follows the game and leaves the banner out (Quiet); SpecNotice     *)
(* follows both.                                                           *)
(***************************************************************************)
EXTENDS Integers, Sequences, FiniteSets, TLC

VARIABLES
    level,          \* useState(1)
    lives,          \* useState(5)
    highscoreLevel, \* useState(localStorage value or 1)
    windDirection,  \* useState(0), re-rolled by the [level] effect
    upgrades,       \* useState(stored upgrades or defaults)
    boat,           \* useState<BoatState>
    rockCount,      \* useState(BASE_ROCK_COUNT)
    rocks,          \* useState<RockState[]>
    livesRef,       \* useRef(lives), copied by the [lives] effect
    upgradesRef,    \* useRef(upgrades), copied by the [upgrades] effect
    rocksRef,       \* useRef(rocks), copied by the [rocks] effect
    windRef,        \* useRef(wind), copied by the [wind.direction, wind.speed] effect
    keysPressed,    \* useRef({}): the set of key codes whose flag is true
    lastTimeRef,    \* useRef<number>(): FALSE while undefined
    levelDep,       \* the level the [level] effect last ran for (0: never ran)
    sched,          \* "idle", "queued" (updates wait for a render) or
                    \* "committed" (a commit's passive effects are not flushed)
    batch,          \* frames handled since the passive effects last ran
    win,            \* window.innerWidth / window.innerHeight, in pixels
    ticks,          \* number of frames handled so far
    inputs,         \* number of input events (keys, touches, codes, resets, resizes) so far;
                    \* an input event is delivered between frames, when React has
                    \* rendered the earlier updates and run their effects (sched = "idle")
    ev,             \* the last frame or input event: its kind, the outcome of the
                    \* resolver, whether lives reached 0, the position it examined
    message,        \* useState<string | null>(null): the notification shown
    timers,         \* the setTimeout callbacks not yet run, in the order of
                    \* their registration
    gen             \* a function on its own: the call's inputs and its result
                    \* (pc is "off" while the game runs)

vars == << level, lives, highscoreLevel, windDirection, upgrades, boat,
           rockCount, rocks, livesRef, upgradesRef, rocksRef, windRef,
           keysPressed, lastTimeRef, levelDep, sched, batch, win, ticks,
           inputs, message, timers, ev, gen >>

gameVars == << level, lives, highscoreLevel, windDirection, upgrades, boat,
               rockCount, rocks, livesRef, upgradesRef, rocksRef, windRef,
               keysPressed, lastTimeRef, levelDep, sched, batch, win, ticks,
               inputs, message, timers >>

----------------------------------------------------------------------------
(* Resolution of the fixed-point numbers *)

Unit == 200
RndDen == 200
PI == 3142
TwoPI == 2 * PI

(* Bounds of the model *)

MaxTicks == 5
MaxBatch == 2
MaxInputs == 1

(* Program constants *)

WIND_SPEED == 15
MAX_BOAT_SPEED == 5 * Unit
TURN_RATE == 40
ACCELERATION == (5 * Unit) \div 100
DRAG == (2 * Unit) \div 100
NO_GO_ZONE_DEG == 45
BASE_ROCK_COUNT == 6
maxAttempts == 3000
minGap == 22 * Unit
buffer == 20 * Unit
safetyRadius == 25 * Unit
MaxLives == 5

----------------------------------------------------------------------------
(* Arithmetic *)

Abs(n) == IF n < 0 THEN -n ELSE n
Min(a, b) == IF a < b THEN a ELSE b
Max(a, b) == IF a > b THEN a ELSE b

\* const clamp = (n, min, max) => Math.max(min, Math.min(max, n))
clamp(n, lo, hi) == Max(lo, Min(hi, n))

\* JavaScript's %: the remainder has the sign of the dividend
Rem(a, m) == IF a >= 0 THEN a % m ELSE -((-a) % m)

\* a * b / c for a product a * b that fits, rounded toward zero
MulDiv(a, b, c) ==
    IF (a < 0) = (b < 0) THEN (Abs(a) * Abs(b)) \div c
                         ELSE -((Abs(a) * Abs(b)) \div c)

\* n * n as << high, low >> with n * n = high * 10^6 + low, for |n| < 10^6
\* (the squares of the program exceed 2^31 in these units)
Square(n) ==
    LET a  == Abs(n)
        ah == a \div 1000
        al == a % 1000
        t  == 2 * ah * al * 1000 + al * al
    IN  << ah * ah + t \div 1000000, t % 1000000 >>

\* dx * dx + dy * dy < minDist * minDist
DistSqLess(dx, dy, minDist) ==
    LET sx == Square(dx)
        sy == Square(dy)
        sm == Square(minDist)
        lo == sx[2] + sy[2]
        hi == sx[1] + sy[1] + lo \div 1000000
        l  == lo % 1000000
    IN  hi < sm[1] \/ (hi = sm[1] /\ l < sm[2])

\* Normalize angle to -PI to PI
normalizeAngle(angle) ==
    LET a == Rem(angle, TwoPI)
        b == IF a > PI THEN a - TwoPI ELSE a
    IN  IF b < -PI THEN b + TwoPI ELSE b

\* 1000 * sin(a) for 0 <= a <= PI (Bhaskara's rational approximation)
SinHalf(a) == (16 * a * (PI - a)) \div ((5 * PI * PI - 4 * a * (PI - a)) \div 1000)

\* 1000 * Math.sin(a), 1000 * Math.cos(a)
Sin(a) ==
    LET n == normalizeAngle(a)
    IN  IF n >= 0 THEN SinHalf(n) ELSE -SinHalf(-n)
Cos(a) == Sin(a + PI \div 2)

----------------------------------------------------------------------------
(* Rock field generator *)

\* Math.random() * range, for the sample n / RndDen
Scale(n, range) == (n * range) \div RndDen

\* The sample the i-th draw (i = 0, 1, ...) of three random numbers returns.
\* A stream is a non-empty finite sequence of triples; draws past its end
\* return its last triple again.
Draw(stream, i) == stream[Min(i + 1, Len(stream))]

\* const minX = targetZoneWidth + margin; const maxX = width - margin; ...
minX(o) == o.targetZoneWidth + o.margin
maxX(o) == o.width - o.margin
minY(o) == o.margin
maxY(o) == o.height - o.margin

\* const leftUpperX = Math.max(minX + 1, Math.min(leftMaxX, maxX))
leftUpperX(o) == Max(minX(o) + Unit, Min(o.leftMaxX, maxX(o)))

\* const radius = 32 + Math.random() * 28
SampleRadius(n) == 32 * Unit + Scale(n, 28 * Unit)

\* LeftCandidate sampling x over the whole width, as the main pass does
LeftCandidate_WholeWidth(o, s) ==
    [ x |-> minX(o) + Scale(s[2], Max(Unit, maxX(o) - minX(o))),
      y |-> minY(o) + Scale(s[3], Max(Unit, maxY(o) - minY(o))),
      radius |-> SampleRadius(s[1]) ]

\* The candidate of the left pass and of the main pass for one draw
LeftCandidate(o, s) ==
    [ x |-> minX(o) + Scale(s[2], leftUpperX(o) - minX(o)),
      y |-> minY(o) + Scale(s[3], Max(Unit, maxY(o) - minY(o))),
      radius |-> SampleRadius(s[1]) ]
MainCandidate(o, s) ==
    [ x |-> minX(o) + Scale(s[2], Max(Unit, maxX(o) - minX(o))),
      y |-> minY(o) + Scale(s[3], Max(Unit, maxY(o) - minY(o))),
      radius |-> SampleRadius(s[1]) ]

\* NearStart with no circle kept free around the start
NearStart_Never(o, c) == FALSE

\* "keep away from start": the test that makes tryAddRock return false
NearStart(o, c) ==
    DistSqLess(c.x - o.startX, c.y - o.startY, o.startSafeRadius + c.radius)

\* "avoid overlapping with other rocks": the test inside the loop over rocks
Overlaps(c, r) ==
    DistSqLess(c.x - r.x, c.y - r.y, c.radius + r.radius + minGap)

\* tryAddRock: the rocks after the call (one longer iff it returned true)
tryAddRock(o, rks, c) ==
    IF NearStart(o, c) THEN rks
    ELSE IF \E i \in 1..Len(rks) : Overlaps(c, rks[i]) THEN rks
    ELSE Append(rks, [ x |-> clamp(c.x, minX(o), maxX(o)),
                       y |-> clamp(c.y, minY(o), maxY(o)),
                       radius |-> c.radius ])

\* for (attempt = 0; attempt < maxAttempts && leftPlaced < Math.min(minLeftCount, count); attempt++)
\* st = [rocks, drawn, attempts]: the rocks so far, the number of draws made
\* and the numbers of iterations of the two loops.  Once the stream repeats
\* its last triple, a rejected candidate is drawn and rejected again in every
\* remaining iteration (a rejection changes nothing but the counter), so the
\* loop then runs out its attempts without another change.
RECURSIVE LeftPass(_, _, _, _, _)
LeftPass(o, stream, st, leftPlaced, attempt) ==
    IF attempt < maxAttempts /\ leftPlaced < Min(o.minLeftCount, o.count)
    THEN LET next == tryAddRock(o, st.rocks, LeftCandidate(o, Draw(stream, st.drawn)))
         IN  IF Len(next) > Len(st.rocks)
             THEN LeftPass(o, stream,
                           [st EXCEPT !.rocks = next, !.drawn = @ + 1],
                           leftPlaced + 1, attempt + 1)
             ELSE IF st.drawn + 1 >= Len(stream)
             THEN [st EXCEPT !.drawn = @ + (maxAttempts - attempt),
                             !.attempts[1] = maxAttempts]
             ELSE LeftPass(o, stream, [st EXCEPT !.drawn = @ + 1],
                           leftPlaced, attempt + 1)
    ELSE [st EXCEPT !.attempts[1] = attempt]

\* MainPass with the loop test rocks.length <= count
RECURSIVE MainPass_OneTooMany(_, _, _, _)
MainPass_OneTooMany(o, stream, st, attempt) ==
    IF attempt < maxAttempts /\ Len(st.rocks) <= o.count
    THEN LET next == tryAddRock(o, st.rocks, MainCandidate(o, Draw(stream, st.drawn)))
         IN  IF Len(next) > Len(st.rocks)
             THEN MainPass_OneTooMany(o, stream,
                                      [st EXCEPT !.rocks = next, !.drawn = @ + 1],
                                      attempt + 1)
             ELSE IF st.drawn + 1 >= Len(stream)
             THEN [st EXCEPT !.drawn = @ + (maxAttempts - attempt),
                             !.attempts[2] = maxAttempts]
             ELSE MainPass_OneTooMany(o, stream, [st EXCEPT !.drawn = @ + 1],
                                      attempt + 1)
    ELSE [st EXCEPT !.attempts[2] = attempt]

\* for (attempt = 0; attempt < maxAttempts && rocks.length < count; attempt++)
RECURSIVE MainPass(_, _, _, _)
MainPass(o, stream, st, attempt) ==
    IF attempt < maxAttempts /\ Len(st.rocks) < o.count
    THEN LET next == tryAddRock(o, st.rocks, MainCandidate(o, Draw(stream, st.drawn)))
         IN  IF Len(next) > Len(st.rocks)
             THEN MainPass(o, stream,
                           [st EXCEPT !.rocks = next, !.drawn = @ + 1],
                           attempt + 1)
             ELSE IF st.drawn + 1 >= Len(stream)
             THEN [st EXCEPT !.drawn = @ + (maxAttempts - attempt),
                             !.attempts[2] = maxAttempts]
             ELSE MainPass(o, stream, [st EXCEPT !.drawn = @ + 1], attempt + 1)
    ELSE [st EXCEPT !.attempts[2] = attempt]

\* generateRandomRocks(opts) for the random numbers of the stream
generateRandomRocks(o, stream) ==
    LET st0  == [ rocks |-> << >>, drawn |-> 0, attempts |-> << 0, 0 >> ]
        left == IF leftUpperX(o) > minX(o)
                THEN LeftPass(o, stream, st0, 0, 0)
                ELSE st0
    IN  MainPass(o, stream, left, 0)

\* The options App passes for a field of w x h pixels
AppRockOpts(count, w, h) ==
    [ count |-> count,
      width |-> w * Unit,
      height |-> h * Unit,
      targetZoneWidth |-> 120 * Unit,
      margin |-> 40 * Unit,
      startX |-> (w * Unit) \div 2,
      startY |-> (h * Unit) \div 2,
      startSafeRadius |-> 220 * Unit,
      minLeftCount |-> 2,
      leftMaxX |-> (w * Unit * 38) \div 100 ]

----------------------------------------------------------------------------
(* Polar performance model *)

\* 1000 * angleDeg, angleDeg = ((Math.PI - |normalizeAngle(heading - wind)|) * 180) / Math.PI
AngleDeg(heading, windDir) ==
    ((PI - Abs(normalizeAngle(heading - windDir))) * 180000) \div PI

\* isInNoGoZone with a zone twice as wide
isInNoGoZone_Wide(heading, windDir) ==
    Abs(AngleDeg(heading, windDir)) < 2 * NO_GO_ZONE_DEG * 1000

isInNoGoZone(heading, windDir) ==
    Abs(AngleDeg(heading, windDir)) < NO_GO_ZONE_DEG * 1000

\* TargetWindFactor with the bounds of the leeway's windFactor
TargetWindFactor_LeewayBounds(windSpeed) ==
    Max(800, Min(2200, (windSpeed * 1000) \div WIND_SPEED))

\* TargetWindFactor without its bounds
TargetWindFactor_Unbounded(windSpeed) == (windSpeed * 1000) \div WIND_SPEED

\* 1000 * windFactor of calculateTargetSpeed: clamp(wind.speed / WIND_SPEED, 0.6, 2.2)
TargetWindFactor(windSpeed) == Max(600, Min(2200, (windSpeed * 1000) \div WIND_SPEED))

\* 1000 * performance
Performance(angleDeg) ==
    IF Abs(angleDeg) >= 90000
    THEN 1000 - ((Abs(angleDeg) - 90000) * 300) \div 90000
    ELSE 300 + ((Abs(angleDeg) - NO_GO_ZONE_DEG * 1000) * 700)
                   \div ((90 - NO_GO_ZONE_DEG) * 1000)

\* calculateTargetSpeed without the dead zone
calculateTargetSpeed_NoDeadZone(heading, wind) ==
    MulDiv(MulDiv(Performance(AngleDeg(heading, wind.direction)), MAX_BOAT_SPEED, 1000),
           TargetWindFactor(wind.speed), 1000)

calculateTargetSpeed(heading, wind) ==
    LET angleDeg == AngleDeg(heading, wind.direction)
    IN  IF Abs(angleDeg) < NO_GO_ZONE_DEG * 1000
        THEN 0
        ELSE MulDiv(MulDiv(Performance(angleDeg), MAX_BOAT_SPEED, 1000),
                    TargetWindFactor(wind.speed), 1000)

calculateSailTrim(heading, windDir) ==
    LET absAngle == Abs(normalizeAngle(heading - windDir + PI))
        boomMag  == (absAngle * 85) \div 180
        cross    == -Sin(heading)
    IN  boomMag * (IF cross > 0 THEN -1 ELSE 1)

----------------------------------------------------------------------------
(* Game loop: the first setBoat updater of update (kinematics) *)

KeyCodes == { "ArrowLeft", "ArrowRight", "KeyA", "KeyD" }

\* 1000 * windFactor of the leeway: clamp(windNow.speed / WIND_SPEED, 0.8, 2.2)
LeewayWindFactor(windSpeed) == Max(800, Min(2200, (windSpeed * 1000) \div WIND_SPEED))

\* SpeedFloor without the floor, ForwardSpeed given to a boat without sail
SpeedFloor_None(speed) == speed
ForwardSpeed_Always(hasSail, speed) == speed

\* newBoat.speed = Math.max(0, newBoat.speed)
SpeedFloor(speed) == Max(0, speed)

\* const forwardSpeed = currentUpgrades.hasSail ? newBoat.speed : 0
ForwardSpeed(hasSail, speed) == IF hasSail THEN speed ELSE 0

Kinematics(prevBoat, currentUpgrades, windNow, keys) ==
    LET effectiveTurnRate == MulDiv(TURN_RATE, currentUpgrades.turnMultiplier, 10)
        left  == "ArrowLeft" \in keys \/ "KeyA" \in keys
        right == "ArrowRight" \in keys \/ "KeyD" \in keys
        turn  == IF left THEN -effectiveTurnRate
                 ELSE IF right THEN effectiveTurnRate ELSE 0
        rudderAngle == IF left THEN -500 ELSE IF right THEN 500 ELSE 0
        speedRatio == Min(1000, MulDiv(prevBoat.speed, 1000, 2 * Unit))
        turnEffectiveness ==
            IF currentUpgrades.turnMultiplier > 10 THEN 1000
            ELSE Max(100, speedRatio)
        heading == normalizeAngle(prevBoat.heading + MulDiv(turn, turnEffectiveness, 1000))
        hasSail == currentUpgrades.hasSail
        \* sailing mode
        targetSpeed == MulDiv(calculateTargetSpeed(heading, windNow),
                              currentUpgrades.speedMultiplier, 10)
        effectiveAcceleration == MulDiv(ACCELERATION, currentUpgrades.speedMultiplier, 10)
        accelerated == IF prevBoat.speed < targetSpeed
                       THEN prevBoat.speed + effectiveAcceleration
                       ELSE prevBoat.speed - DRAG
        sailSpeed == IF targetSpeed = 0 THEN MulDiv(accelerated, 98, 100)
                     ELSE accelerated
        windFactor == LeewayWindFactor(windNow.speed)
        polarMax == MulDiv(MAX_BOAT_SPEED, windFactor, 1000)
        efficiency == IF polarMax > 0
                      THEN Max(0, Min(1000, MulDiv(targetSpeed, 1000, polarMax)))
                      ELSE 0
        leewayMag == MulDiv(MulDiv(windNow.speed * Unit, windFactor, 100000),
                            1000 - efficiency, 1000)
        ironsDrift == IF isInNoGoZone(heading, windNow.direction)
                      THEN MulDiv(windNow.speed * Unit * 2, windFactor, 100000)
                      ELSE 0
        \* no sail mode: windNow.speed * 0.02 along the wind
        noSailDrift == (windNow.speed * Unit * 2) \div 100
        driftX == IF ~hasSail
                  THEN MulDiv(Cos(windNow.direction), noSailDrift, 1000)
                  ELSE MulDiv(Cos(windNow.direction), leewayMag, 1000)
                       + MulDiv(Cos(windNow.direction), ironsDrift, 1000)
        driftY == IF ~hasSail
                  THEN MulDiv(Sin(windNow.direction), noSailDrift, 1000)
                  ELSE MulDiv(Sin(windNow.direction), leewayMag, 1000)
                       + MulDiv(Sin(windNow.direction), ironsDrift, 1000)
        speed == SpeedFloor(IF ~hasSail THEN MulDiv(prevBoat.speed, 95, 100) ELSE sailSpeed)
        forwardSpeed == ForwardSpeed(hasSail, speed)
    IN  [ x |-> prevBoat.x + MulDiv(Cos(heading), forwardSpeed, 1000) + driftX,
          y |-> prevBoat.y + MulDiv(Sin(heading), forwardSpeed, 1000) + driftY,
          heading |-> heading,
          speed |-> speed,
          rudderAngle |-> rudderAngle,
          sailAngle |-> IF hasSail
                        THEN calculateSailTrim(heading, windNow.direction)
                        ELSE 0 ]

----------------------------------------------------------------------------
(* Game loop: the second setBoat updater of update (resolver) *)

\* won, hitWall and hitRock as the resolver computes them for a boat at
\* (x, y) on a w x h pixel window
Won(x) == x < buffer
HitWall(x, y, w, h) ==
    ~Won(x) /\ (x > w * Unit - buffer \/ y < buffer \/ y > h * Unit - buffer)
HitRock(x, y, rks) ==
    ~Won(x) /\ \E i \in 1..Len(rks) :
                  DistSqLess(x - rks[i].x, y - rks[i].y, rks[i].radius + safetyRadius)

\* Outcome with the wall test made before the goal test
Outcome_WallFirst(x, y, w, h, rks) ==
    IF x > w * Unit - buffer \/ y < buffer \/ y > h * Unit - buffer THEN "wall"
    ELSE IF x < buffer THEN "goal"
    ELSE IF HitRock(x, y, rks) THEN "rock"
    ELSE "none"

\* The branch the resolver takes; "wallrock" is the hit with hitWall and
\* hitRock both true
Outcome(x, y, w, h, rks) ==
    IF Won(x) THEN "goal"
    ELSE IF HitWall(x, y, w, h) /\ HitRock(x, y, rks) THEN "wallrock"
    ELSE IF HitWall(x, y, w, h) THEN "wall"
    ELSE IF HitRock(x, y, rks) THEN "rock"
    ELSE "none"

\* The boat both reset branches return
ResetBoat(w, h, windDir) ==
    [ x |-> (w * Unit) \div 2,
      y |-> (h * Unit) \div 2,
      heading |-> normalizeAngle(windDir + PI),
      speed |-> 0,
      rudderAngle |-> 0,
      sailAngle |-> 0 ]

----------------------------------------------------------------------------
(* Inputs of the game *)

\* window.innerWidth x window.innerHeight
WindowSizes ==
    { [w |-> 1000, h |-> 800], [w |-> 320, h |-> 800],
      [w |-> 320, h |-> 30], [w |-> 30, h |-> 30] }

\* Values of Math.random() in pickWindDirectionForLevel
WindSamples == { 0, 199 }

\* Values of Math.random() while App generates rocks
GameStreams ==
    { << << 0, 0, 100 >>, << 0, 0, 0 >> >>,
      << << 100, 0, 0 >> >> }

\* localStorage.getItem('segel_sim_highscore_level')
StoredHighscores ==
    { [kind |-> "null"], [kind |-> "number", n |-> 0], [kind |-> "number", n |-> 3] }

\* raw ? Number(raw) : 1, then Number.isFinite(n) && n >= 1 ? n : 1
LoadHighscore(raw) ==
    IF raw.kind = "number" /\ raw.n >= 1 THEN raw.n ELSE 1

UpgradeDefaults ==
    [ hasSail |-> FALSE, turnMultiplier |-> 10, speedMultiplier |-> 10,
      revealMap |-> FALSE ]

\* The upgrades App starts with (localStorage holds no 'segel_sim_upgrades')
StoredUpgrades ==
    { UpgradeDefaults }

\* A value of the parsed entry: absent, a boolean, a number (in tenths), a
\* numeral too large for a double (JSON.parse gives Infinity), or a string
Absent == [ t |-> "absent" ]
Bool(b) == [ t |-> "boolean", v |-> b ]
Num(n) == [ t |-> "number", v |-> n ]
Huge == [ t |-> "infinite" ]
Str == [ t |-> "string" ]

\* An entry that parses to an object with these four properties
Entry(hasSail, turnMultiplier, speedMultiplier, revealMap) ==
    [ kind |-> "object", hasSail |-> hasSail, turnMultiplier |-> turnMultiplier,
      speedMultiplier |-> speedMultiplier, revealMap |-> revealMap ]

\* localStorage.getItem('segel_sim_upgrades'): nothing, text that is not
\* JSON, JSON that is no object (null, 7), and objects: empty, as App wrote
\* it, with wrong types, and with numbers App never writes
StoredEntries ==
    { [ kind |-> "missing" ], [ kind |-> "text" ], [ kind |-> "null" ],
      [ kind |-> "scalar" ],
      Entry(Absent, Absent, Absent, Absent),
      Entry(Bool(TRUE), Num(30), Num(15), Bool(TRUE)),
      Entry(Str, Str, Bool(TRUE), Num(10)),
      Entry(Bool(TRUE), Huge, Num(5), Absent),
      Entry(Bool(TRUE), Num(10), Num(30), Bool(FALSE)),
      Entry(Bool(FALSE), Num(0), Num(-10), Bool(FALSE)) }

\* The initialiser of the upgrades state
LoadUpgrades(raw) ==
    IF raw.kind # "object" THEN UpgradeDefaults
    ELSE [ hasSail |-> IF raw.hasSail.t = "boolean" THEN raw.hasSail.v
                       ELSE UpgradeDefaults.hasSail,
           turnMultiplier |-> IF raw.turnMultiplier.t = "number" THEN raw.turnMultiplier.v
                              ELSE UpgradeDefaults.turnMultiplier,
           speedMultiplier |-> IF raw.speedMultiplier.t = "number" THEN raw.speedMultiplier.v
                               ELSE UpgradeDefaults.speedMultiplier,
           revealMap |-> IF raw.revealMap.t = "boolean" THEN raw.revealMap.v
                         ELSE UpgradeDefaults.revealMap ]

\* CleanCode removing the spaces inside a code as well
CleanCode_NoSpaces ==
    [ c \in { "teamtage", " TeamTage", "kiimedias", "TURBO ", "karpi", "tur bo", "" } |->
        CASE c = " TeamTage" -> "teamtage"
          [] c = "TURBO "    -> "turbo"
          [] c = "tur bo"    -> "turbo"
          [] OTHER           -> c ]

\* code.toLowerCase().trim() on the codes the player submits
CleanCode ==
    [ c \in { "teamtage", " TeamTage", "kiimedias", "TURBO ", "karpi", "tur bo", "" } |->
        CASE c = " TeamTage" -> "teamtage"
          [] c = "TURBO "    -> "turbo"
          [] OTHER           -> c ]

----------------------------------------------------------------------------
(* App *)

\* const currentWindSpeed = WIND_SPEED + (level - 1) * 3
currentWindSpeed(lvl) == WIND_SPEED + (lvl - 1) * 3

\* pickWindDirectionForLevel drawing from the whole circle
pickWindDirectionForLevel_AllRound(lvl, n) == MulDiv(2 * n - RndDen, PI, RndDen)

\* pickWindDirectionForLevel(lvl) for Math.random() = n / RndDen
pickWindDirectionForLevel(lvl, n) ==
    LET maxAngle == Min(PI \div 4, PI \div 18 + (lvl - 1) * (PI \div 36))
    IN  MulDiv(2 * n - RndDen, maxAngle, RndDen)

\* message === null is held as the empty string, which no handler sets
null == ""

\* The banner is not followed
Quiet == UNCHANGED << message, timers >>

\* setTimeout(() => { setMessage(text); setTimeout(() => setMessage(null), clearAfter) }, 0)
ShowLater(text, clearAfter) == [ delay |-> 0, set |-> text, then |-> clearAfter ]

\* setTimeout(() => setMessage(null), delay)
ClearLater(delay) == [ delay |-> delay, set |-> null, then |-> 0 ]

\* The timer the resolver starts for a frame's outcome
FrameNotice(outcome, nextLives) ==
    IF outcome = "goal" THEN ShowLater("Level Aufstieg! Staerkerer Wind.", 2500)
    ELSE IF nextLives <= 0 THEN ShowLater("Game Over! Zurueck zu Level 1.", 2500)
    ELSE ShowLater((IF outcome \in { "rock", "wallrock" }
                    THEN "Felsen beruehrt! Zurueck zum Start."
                    ELSE "Rand beruehrt! Zurueck zum Start.")
                   \o " Leben: " \o ToString(nextLives) \o "/5", 2000)

\* The notification handleUpgradeCode shows for a clean code; null: none
CodeNotice(cleanCode, current) ==
    CASE cleanCode = "teamtage" ->
            IF ~current.hasSail THEN "UPGRADE: Segel installiert!"
            ELSE "Info: Segel bereits vorhanden"
      [] cleanCode = "kiimedias" -> "UPGRADE: Super-Lenkung!"
      [] cleanCode = "turbo" -> "UPGRADE: Turbo Speed!"
      [] cleanCode = "karpi" ->
            IF ~current.revealMap THEN "UPGRADE: Nebel gelichtet!"
            ELSE "Info: Karte bereits aufgedeckt"
      [] OTHER -> null

\* The delay after which handleUpgradeCode clears the notification
CodeNoticeDelay(text) ==
    IF text \in { "UPGRADE: Segel installiert!", "UPGRADE: Nebel gelichtet!" }
    THEN 2500 ELSE 2000

NoEvent == [ kind |-> "init", outcome |-> "none", over |-> FALSE, x |-> 0, y |-> 0 ]
InputEvent(kind) == [ NoEvent EXCEPT !.kind = kind ]

\* The first render of App in a window of one of sizes, the upgrades state
\* initialised to one of loaded
AppInit(loaded, sizes) ==
    /\ win \in sizes
    /\ level = 1
    /\ lives = MaxLives
    /\ \E raw \in StoredHighscores : highscoreLevel = LoadHighscore(raw)
    /\ windDirection = 0
    /\ upgrades \in loaded
    /\ boat = [ x |-> (win.w * Unit) \div 2, y |-> (win.h * Unit) \div 2,
                heading |-> PI, speed |-> 0, rudderAngle |-> 0, sailAngle |-> 0 ]
    /\ rockCount = BASE_ROCK_COUNT
    /\ \E stream \in GameStreams :
          rocks = generateRandomRocks(AppRockOpts(BASE_ROCK_COUNT, win.w, win.h), stream).rocks
    /\ livesRef = lives
    /\ upgradesRef = upgrades
    /\ rocksRef = rocks
    /\ windRef = [ direction |-> 0, speed |-> currentWindSpeed(1) ]
    /\ keysPressed = {}
    /\ lastTimeRef = FALSE
    /\ levelDep = 0
    /\ sched = "committed"
    /\ batch = 0
    /\ ticks = 0
    /\ inputs = 0
    /\ message = null
    /\ timers = << >>
    /\ ev = NoEvent

GameInit == AppInit(StoredUpgrades, WindowSizes)

\* PassiveEffects leaving upgradesRef, rocksRef and windRef as they were when
\* the frame loop was subscribed (the frame reading what its closure captured)
PassiveEffects_Captured ==
    /\ sched # "idle"
    /\ livesRef' = lives
    /\ IF level # levelDep
       THEN /\ \E n \in WindSamples : windDirection' = pickWindDirectionForLevel(level, n)
            /\ levelDep' = level
            /\ sched' = "queued"
       ELSE /\ UNCHANGED << windDirection, levelDep >>
            /\ sched' = "idle"
    /\ batch' = 0
    /\ UNCHANGED << level, lives, highscoreLevel, upgrades, boat, rockCount,
                    rocks, upgradesRef, rocksRef, windRef, keysPressed,
                    lastTimeRef, win, ticks, inputs, ev, gen >>

\* React renders the queued updates, commits, and runs the passive effects
\* of the commit: the four ref copies, and the [level] effect, whose
\* setWindDirection waits for the next render.
PassiveEffects ==
    /\ sched # "idle"
    /\ livesRef' = lives
    /\ upgradesRef' = upgrades
    /\ rocksRef' = rocks
    /\ windRef' = [ direction |-> windDirection, speed |-> currentWindSpeed(level) ]
    /\ IF level # levelDep
       THEN /\ \E n \in WindSamples : windDirection' = pickWindDirectionForLevel(level, n)
            /\ levelDep' = level
            /\ sched' = "queued"
       ELSE /\ UNCHANGED << windDirection, levelDep >>
            /\ sched' = "idle"
    /\ batch' = 0
    /\ UNCHANGED << level, lives, highscoreLevel, upgrades, boat, rockCount,
                    rocks, keysPressed, lastTimeRef, win, ticks, inputs, ev, gen >>

\* update(time), first frame: lastTimeRef.current is undefined
FirstFrame ==
    /\ ~lastTimeRef
    /\ lastTimeRef' = TRUE
    /\ UNCHANGED << level, lives, highscoreLevel, windDirection, upgrades, boat,
                    rockCount, rocks, livesRef, upgradesRef, rocksRef, windRef,
                    keysPressed, levelDep, sched, batch, win, ticks, inputs,
                    ev, gen >>

\* LevelAfterGoal skipping a level, HighscoreAfterGoal overwriting the record
LevelAfterGoal_Skip(l) == l + 2
HighscoreAfterGoal_Overwrite(h, next) == next

\* setLevel(l => { const next = l + 1; setHighscoreLevel(h => Math.max(h, next)); return next })
LevelAfterGoal(l) == l + 1
HighscoreAfterGoal(h, next) == Max(h, next)

\* const nextLives = livesRef.current - 1
NextLives(ref) == ref - 1

\* LivesAfterHit without the setLives(5) of the game-over branch
LivesAfterHit_NoRefill(nextLives) == Max(0, nextLives)

\* setLives(Math.max(0, nextLives)); if (nextLives <= 0) { setLevel(1); setLives(5) }
LivesAfterHit(nextLives) == IF nextLives <= 0 THEN MaxLives ELSE Max(0, nextLives)
LevelAfterHit(l, nextLives) == IF nextLives <= 0 THEN 1 ELSE l

Hits == { "wall", "rock", "wallrock" }

\* UpgradesAfterFrame with the upgrades lost at game over
UpgradesAfterFrame_LostAtGameOver(u, outcome, nextLives) ==
    IF outcome \in Hits /\ nextLives <= 0 THEN UpgradeDefaults ELSE u

\* Neither updater of update calls setUpgrades, in any branch
UpgradesAfterFrame(u, outcome, nextLives) == u

\* update(time), later frames: both setBoat updaters and the state updates
\* the second one makes.  A frame is handled when no commit waits for its
\* passive effects; up to MaxBatch frames are rendered in one commit.
Tick ==
    /\ lastTimeRef
    /\ ticks < MaxTicks
    /\ sched # "committed"
    /\ batch < MaxBatch
    /\ LET moved   == Kinematics(boat, upgradesRef, windRef, keysPressed)
           outcome == Outcome(moved.x, moved.y, win.w, win.h, rocksRef)
           nextLives == NextLives(livesRef)
       IN  /\ IF outcome = "goal"
              THEN /\ level' = LevelAfterGoal(level)
                   /\ highscoreLevel' = HighscoreAfterGoal(highscoreLevel, LevelAfterGoal(level))
                   /\ lives' = lives
                   /\ boat' = ResetBoat(win.w, win.h, windRef.direction)
              ELSE IF outcome \in Hits
              THEN /\ lives' = LivesAfterHit(nextLives)
                   /\ level' = LevelAfterHit(level, nextLives)
                   /\ highscoreLevel' = highscoreLevel
                   /\ boat' = ResetBoat(win.w, win.h, windRef.direction)
              ELSE /\ boat' = moved
                   /\ UNCHANGED << level, lives, highscoreLevel >>
           /\ upgrades' = UpgradesAfterFrame(upgrades, outcome, nextLives)
           /\ ev' = [ kind |-> "tick", outcome |-> outcome,
                      over |-> outcome \in Hits /\ nextLives <= 0,
                      x |-> moved.x, y |-> moved.y ]
    /\ sched' = "queued"
    /\ batch' = batch + 1
    /\ ticks' = ticks + 1
    /\ UNCHANGED << windDirection, rockCount, rocks, livesRef,
                    upgradesRef, rocksRef, windRef, keysPressed, lastTimeRef,
                    levelDep, win, inputs, gen >>

\* An input event is delivered
Input(kind) ==
    /\ sched = "idle"
    /\ inputs < MaxInputs
    /\ inputs' = inputs + 1
    /\ ev' = InputEvent(kind)

\* keysPressed.current after each of the three handlers
KeysAfterKeyDown(keys, code, targetIsInput) ==
    IF targetIsInput THEN keys ELSE keys \cup { code }

KeysAfterKeyUp(keys, code) == keys \ { code }

KeysAfterSteer(keys, direction) ==
    IF direction = "left" THEN (keys \cup { "ArrowLeft" }) \ { "ArrowRight" }
    ELSE IF direction = "right" THEN (keys \cup { "ArrowRight" }) \ { "ArrowLeft" }
    ELSE keys \ { "ArrowLeft", "ArrowRight" }

handleKeyDown(code, targetIsInput) ==
    /\ Input("key")
    /\ keysPressed' = KeysAfterKeyDown(keysPressed, code, targetIsInput)
    /\ UNCHANGED << level, lives, highscoreLevel, windDirection, upgrades, boat,
                    rockCount, rocks, livesRef, upgradesRef, rocksRef, windRef,
                    lastTimeRef, levelDep, sched, batch, win, ticks, gen >>

handleKeyUp(code) ==
    /\ Input("key")
    /\ keysPressed' = KeysAfterKeyUp(keysPressed, code)
    /\ UNCHANGED << level, lives, highscoreLevel, windDirection, upgrades, boat,
                    rockCount, rocks, livesRef, upgradesRef, rocksRef, windRef,
                    lastTimeRef, levelDep, sched, batch, win, ticks, gen >>

handleSteer(direction) ==
    /\ Input("steer")
    /\ keysPressed' = KeysAfterSteer(keysPressed, direction)
    /\ UNCHANGED << level, lives, highscoreLevel, windDirection, upgrades, boat,
                    rockCount, rocks, livesRef, upgradesRef, rocksRef, windRef,
                    lastTimeRef, levelDep, sched, batch, win, ticks, gen >>

\* The upgrades after the setUpgrades updater of the branch a code takes
UpgradesAfterCode(prev, cleanCode) ==
    IF cleanCode = "teamtage" THEN [prev EXCEPT !.hasSail = TRUE]
    ELSE IF cleanCode = "kiimedias" THEN [prev EXCEPT !.turnMultiplier = 30]
    ELSE IF cleanCode = "turbo" THEN [prev EXCEPT !.speedMultiplier = 15]
    ELSE IF cleanCode = "karpi" THEN [prev EXCEPT !.revealMap = TRUE]
    ELSE prev

handleUpgradeCode(code) ==
    LET cleanCode == CleanCode[code]
        recognized == cleanCode \in { "teamtage", "kiimedias", "turbo", "karpi" }
    IN  /\ Input("code")
        /\ upgrades' = UpgradesAfterCode(upgrades, cleanCode)
        /\ sched' = IF recognized THEN "committed" ELSE sched
        /\ UNCHANGED << level, lives, highscoreLevel, windDirection, boat,
                        rockCount, rocks, livesRef, upgradesRef, rocksRef, windRef,
                        keysPressed, lastTimeRef, levelDep, batch, win, ticks, gen >>

\* NextRockCount adding two rocks, and adding none
NextRockCount_Two(prev) == prev + 2
NextRockCount_Same(prev) == prev

\* setRockCount((prev) => { const nextCount = prev + 1; ... })
NextRockCount(prev) == prev + 1

handleResetRun ==
    /\ Input("reset")
    /\ level' = 1
    /\ lives' = MaxLives
    /\ \E n \in WindSamples :
          LET nextWindDir == pickWindDirectionForLevel(1, n)
          IN  /\ windDirection' = nextWindDir
              /\ boat' = ResetBoat(win.w, win.h, nextWindDir)
    /\ keysPressed' = {}
    /\ rockCount' = NextRockCount(rockCount)
    /\ \E stream \in GameStreams :
          rocks' = generateRandomRocks(
                       AppRockOpts(NextRockCount(rockCount), win.w, win.h), stream).rocks
    /\ sched' = "committed"
    /\ UNCHANGED << highscoreLevel, upgrades, livesRef, upgradesRef, rocksRef,
                    windRef, lastTimeRef, levelDep, batch, win, ticks, gen >>

\* The browser window changes size (handleResize does nothing)
Resize ==
    /\ Input("resize")
    /\ \E size \in WindowSizes \ { win } : win' = size
    /\ UNCHANGED << level, lives, highscoreLevel, windDirection, upgrades, boat,
                    rockCount, rocks, livesRef, upgradesRef, rocksRef, windRef,
                    keysPressed, lastTimeRef, levelDep, sched, batch, ticks, gen >>

Init ==
    /\ GameInit
    /\ gen = [ pc |-> "off" ]

Next ==
    \/ PassiveEffects /\ Quiet
    \/ FirstFrame /\ Quiet
    \/ Tick /\ Quiet
    \/ \E code \in KeyCodes, targetIsInput \in BOOLEAN :
          handleKeyDown(code, targetIsInput) /\ Quiet
    \/ \E code \in KeyCodes : handleKeyUp(code) /\ Quiet
    \/ \E direction \in { "left", "right", "none" } : handleSteer(direction) /\ Quiet
    \/ \E code \in DOMAIN CleanCode : handleUpgradeCode(code) /\ Quiet
    \/ handleResetRun /\ Quiet
    \/ Resize /\ Quiet

Spec == Init /\ [][Next]_vars

----------------------------------------------------------------------------
(* The game started on a stored upgrade entry *)

StorageInit ==
    /\ AppInit({ LoadUpgrades(raw) : raw \in StoredEntries }, { [w |-> 1000, h |-> 800] })
    /\ highscoreLevel = 1
    /\ gen = [ pc |-> "off" ]

\* The keyboard, touch and resize handlers are left out
NextStorage ==
    \/ PassiveEffects /\ Quiet
    \/ FirstFrame /\ Quiet
    \/ Tick /\ Quiet
    \/ \E code \in DOMAIN CleanCode : handleUpgradeCode(code) /\ Quiet
    \/ handleResetRun /\ Quiet

SpecStorage == StorageInit /\ [][NextStorage]_vars

----------------------------------------------------------------------------
(* The game without a sail, in windows from the narrowest that keeps the    *)
(* centre out of the goal zone: frames, steering, resets                    *)

DriftWindows == { [w |-> 40, h |-> 40], [w |-> 41, h |-> 800], [w |-> 1000, h |-> 800] }

DriftInit ==
    /\ AppInit(StoredUpgrades, DriftWindows)
    /\ highscoreLevel = 1
    /\ gen = [ pc |-> "off" ]

NextDrift ==
    \/ PassiveEffects /\ Quiet
    \/ FirstFrame /\ Quiet
    \/ Tick /\ Quiet
    \/ \E code \in KeyCodes, targetIsInput \in BOOLEAN : handleKeyDown(code, targetIsInput) /\ Quiet
    \/ \E code \in KeyCodes : handleKeyUp(code) /\ Quiet
    \/ \E direction \in { "left", "right", "none" } : handleSteer(direction) /\ Quiet
    \/ handleResetRun /\ Quiet

SpecDrift == DriftInit /\ [][NextDrift]_vars

----------------------------------------------------------------------------
(* The game with its notifications *)

MaxNoticeTicks == 2

\* update: the setTimeout of the won, game-over and hit branches
TickNotice ==
    /\ timers' = IF ev'.outcome = "none" THEN timers
                 ELSE Append(timers, FrameNotice(ev'.outcome, NextLives(livesRef)))
    /\ message' = message

\* handleUpgradeCode: setMessage and setTimeout of the branch taken
handleUpgradeCodeNotice(code) ==
    LET text == CodeNotice(CleanCode[code], upgrades)
    IN  IF text # null
        THEN /\ message' = text
             /\ timers' = Append(timers, ClearLater(CodeNoticeDelay(text)))
        ELSE UNCHANGED << message, timers >>

\* handleResetRun: setMessage and setTimeout
handleResetRunNotice ==
    /\ message' = "Neuer Run: Level zurueckgesetzt & Felsen neu platziert."
    /\ timers' = Append(timers, ClearLater(2500))

\* timers without its i-th entry
Without(i) == [ k \in 1..(Len(timers) - 1) |-> IF k < i THEN timers[k] ELSE timers[k + 1] ]

\* A timer expires and its callback runs, between two frames as an input
\* event does.  Of two timers the one started first with a delay that is
\* not longer runs first.
Timeout ==
    /\ sched = "idle"
    /\ \E i \in 1..Len(timers) :
          /\ \A j \in 1..(i - 1) : timers[j].delay > timers[i].delay
          /\ message' = timers[i].set
          /\ timers' = IF timers[i].then > 0
                       THEN Append(Without(i), ClearLater(timers[i].then))
                       ELSE Without(i)
    /\ UNCHANGED << level, lives, highscoreLevel, windDirection, upgrades, boat,
                    rockCount, rocks, livesRef, upgradesRef, rocksRef, windRef,
                    keysPressed, lastTimeRef, levelDep, sched, batch, win, ticks,
                    inputs, ev, gen >>

\* The keyboard, touch and resize handlers start no notification and are
\* left out
NextNotice ==
    \/ PassiveEffects /\ Quiet
    \/ FirstFrame /\ Quiet
    \/ ticks < MaxNoticeTicks /\ Tick /\ TickNotice
    \/ \E code \in DOMAIN CleanCode : handleUpgradeCode(code) /\ handleUpgradeCodeNotice(code)
    \/ handleResetRun /\ handleResetRunNotice
    \/ Timeout

\* A window whose every frame hits the top wall, and one whose every frame
\* is in the goal
NoticeInit ==
    /\ Init
    /\ win \in { [w |-> 320, h |-> 30], [w |-> 30, h |-> 30] }
    /\ highscoreLevel = 1

SpecNotice == NoticeInit /\ [][NextNotice]_vars

----------------------------------------------------------------------------
(* generateRandomRocks on its own: one call per behaviour *)

MaxDraws == 3

\* Triples of Math.random() values (radius, x, y), as numerators over RndDen
RandomTriples ==
    { << 0, 0, 0 >>, << 0, 199, 21 >>, << 0, 0, 100 >>, << 100, 0, 0 >>,
      << 199, 199, 199 >>, << 0, 199, 50 >>, << 0, 199, 0 >> }

RandomStreams == UNION { [1..n -> RandomTriples] : n \in 1..MaxDraws }

\* Field sizes and rock counts of the calls
RockFields ==
    { [w |-> 1000, h |-> 800], [w |-> 320, h |-> 800], [w |-> 200, h |-> 899],
      [w |-> 30, h |-> 30], [w |-> 200, h |-> 1059], [w |-> 500, h |-> 400],
      [w |-> 422, h |-> 800] }
RockCounts == { -1, 0, 1, 2, BASE_ROCK_COUNT }
RockConfigs == { AppRockOpts(c, f.w, f.h) : c \in RockCounts, f \in RockFields }

RocksInit ==
    /\ GameInit
    /\ win = [w |-> 1000, h |-> 800]
    /\ highscoreLevel = 1
    /\ Len(rocks) = 2
    /\ \E o \in RockConfigs, s \in RandomStreams :
          gen = [ pc |-> "call", opts |-> o, stream |-> s,
                  out |-> [ rocks |-> << >>, drawn |-> 0, attempts |-> << 0, 0 >> ] ]

Generate ==
    /\ gen.pc = "call"
    /\ gen' = [gen EXCEPT !.pc = "done",
                          !.out = generateRandomRocks(gen.opts, gen.stream)]
    /\ UNCHANGED << gameVars, ev >>

NextRocks == Generate

SpecRocks == RocksInit /\ [][NextRocks]_vars

----------------------------------------------------------------------------
(* The reset position: rocks are generated for a field, a boat is reset to  *)
(* its centre, and the resolver examines that position                      *)

\* Fields from the smallest whose centre is clear of the wall buffers
StartFields ==
    { [w |-> 40, h |-> 40], [w |-> 40, h |-> 800], [w |-> 1000, h |-> 40],
      [w |-> 200, h |-> 1059], [w |-> 320, h |-> 800], [w |-> 1000, h |-> 800] }

\* rockCount at the start and after one reset or game over
StartCounts == { BASE_ROCK_COUNT, NextRockCount(BASE_ROCK_COUNT) }

StartInit ==
    /\ GameInit
    /\ win = [w |-> 1000, h |-> 800]
    /\ highscoreLevel = 1
    /\ Len(rocks) = 2
    /\ \E f \in StartFields, c \in StartCounts, s \in RandomStreams :
          gen = [ pc |-> "field", field |-> f, count |-> c, stream |-> s,
                  rocks |-> << >>, boat |-> boat, outcome |-> "" ]

\* setRocks(generateRandomRocks({...})) and the reset of the boat
PlaceRocks ==
    /\ gen.pc = "field"
    /\ \E n \in WindSamples :
          gen' = [gen EXCEPT
                    !.pc = "reset",
                    !.rocks = generateRandomRocks(
                                 AppRockOpts(gen.count, gen.field.w, gen.field.h),
                                 gen.stream).rocks,
                    !.boat = ResetBoat(gen.field.w, gen.field.h,
                                       pickWindDirectionForLevel(1, n))]
    /\ UNCHANGED << gameVars, ev >>

\* The resolver examines the boat as it was reset
CheckStart ==
    /\ gen.pc = "reset"
    /\ gen' = [gen EXCEPT
                 !.pc = "checked",
                 !.outcome = Outcome(gen.boat.x, gen.boat.y,
                                     gen.field.w, gen.field.h, gen.rocks)]
    /\ UNCHANGED << gameVars, ev >>

NextStart == PlaceRocks \/ CheckStart

SpecStart == StartInit /\ [][NextStart]_vars

----------------------------------------------------------------------------
(* The kinematics updater on its own: a boat in open water, moved by       *)
(* successive frames, between which the player steers, enters upgrade      *)
(* codes, and the wind changes                                             *)

MaxSailTicks == 3
MaxSailInputs == 1

\* prevBoat.heading, prevBoat.speed
SailHeadings == { PI, 2500, 2300, PI \div 2, 0 }
SailSpeeds == { 0, 6, 5 * Unit, 16 * Unit }

\* upgradesRef.current
SailUpgrades ==
    { UpgradeDefaults,
      [UpgradeDefaults EXCEPT !.hasSail = TRUE],
      [UpgradeDefaults EXCEPT !.hasSail = TRUE, !.turnMultiplier = 30,
                              !.speedMultiplier = 15],
      \* read from a stored entry whose speedMultiplier is -1
      [UpgradeDefaults EXCEPT !.hasSail = TRUE, !.speedMultiplier = -10] }

\* windRef.current: the wind of level 1 and of level 9, straight and slanted
SailWinds ==
    { [ direction |-> d, speed |-> currentWindSpeed(l) ] :
        d \in { 0, PI \div 4 }, l \in { 1, 9 } }

\* keysPressed.current
SailKeys == { {}, { "ArrowLeft" }, { "KeyD" } }

SailInit ==
    /\ GameInit
    /\ win = [w |-> 1000, h |-> 800]
    /\ highscoreLevel = 1
    /\ Len(rocks) = 2
    /\ \E h \in SailHeadings, s \in SailSpeeds, u \in SailUpgrades,
          w \in SailWinds, k \in SailKeys :
          LET b == [ x |-> 500 * Unit, y |-> 400 * Unit, heading |-> h,
                     speed |-> s, rudderAngle |-> 0, sailAngle |-> 0 ]
          IN  gen = [ pc |-> "sail", boat |-> b, prev |-> b, upgrades |-> u,
                      wind |-> w, keys |-> k, n |-> 0, inputs |-> 0 ]

\* One frame: setBoat's first updater applied to the boat
SailTick ==
    /\ gen.pc = "sail"
    /\ gen.n < MaxSailTicks
    /\ gen' = [gen EXCEPT !.prev = gen.boat,
                          !.boat = Kinematics(gen.boat, gen.upgrades, gen.wind, gen.keys),
                          !.n = gen.n + 1]
    /\ UNCHANGED << gameVars, ev >>

SailInput ==
    /\ gen.pc = "sail"
    /\ gen.inputs < MaxSailInputs

\* The player changes the keys held
SailSteer ==
    /\ SailInput
    /\ \E k \in SailKeys \ { gen.keys } :
          gen' = [gen EXCEPT !.keys = k, !.inputs = gen.inputs + 1]
    /\ UNCHANGED << gameVars, ev >>

\* An upgrade code has been entered and the [upgrades] effect has run
SailCode ==
    /\ SailInput
    /\ \E u \in { [gen.upgrades EXCEPT !.hasSail = TRUE],
                  [gen.upgrades EXCEPT !.turnMultiplier = 30],
                  [gen.upgrades EXCEPT !.speedMultiplier = 15] } \ { gen.upgrades } :
          gen' = [gen EXCEPT !.upgrades = u, !.inputs = gen.inputs + 1]
    /\ UNCHANGED << gameVars, ev >>

\* The wind has changed and the [wind.direction, wind.speed] effect has run
SailWind ==
    /\ SailInput
    /\ \E w \in SailWinds \ { gen.wind } :
          gen' = [gen EXCEPT !.wind = w, !.inputs = gen.inputs + 1]
    /\ UNCHANGED << gameVars, ev >>

NextSail == SailTick \/ SailSteer \/ SailCode \/ SailWind

SpecSail == SailInit /\ [][NextSail]_vars

\* gen' is gen after one more frame
SailTickStep == gen.pc = "sail" /\ gen'.n = gen.n + 1

----------------------------------------------------------------------------
(* Steering on its own: the three handlers that write keysPressed.current   *)
(* and the frames that read it, with the side of the latest press kept in   *)
(* last                                                                     *)

MaxSteerTicks == 2
MaxSteerInputs == 2

\* The side a key code steers to
SideOf(code) == IF code \in { "ArrowLeft", "KeyA" } THEN "left" ELSE "right"

SteerInit ==
    /\ GameInit
    /\ win = [w |-> 1000, h |-> 800]
    /\ highscoreLevel = 1
    /\ Len(rocks) = 2
    /\ gen = [ pc |-> "steer", boat |-> boat, keys |-> {}, last |-> "none",
               n |-> 0, inputs |-> 0 ]

SteerInput ==
    /\ gen.pc = "steer"
    /\ gen.inputs < MaxSteerInputs

\* keydown outside the upgrade box
SteerKeyDown(code) ==
    /\ SteerInput
    /\ gen' = [gen EXCEPT !.keys = KeysAfterKeyDown(gen.keys, code, FALSE),
                          !.last = SideOf(code),
                          !.inputs = gen.inputs + 1]
    /\ UNCHANGED << gameVars, ev >>

SteerKeyUp(code) ==
    /\ SteerInput
    /\ gen' = [gen EXCEPT !.keys = KeysAfterKeyUp(gen.keys, code),
                          !.last = "none",
                          !.inputs = gen.inputs + 1]
    /\ UNCHANGED << gameVars, ev >>

\* A touch button is pressed (left, right) or released (none)
SteerTouch(direction) ==
    /\ SteerInput
    /\ gen' = [gen EXCEPT !.keys = KeysAfterSteer(gen.keys, direction),
                          !.last = direction,
                          !.inputs = gen.inputs + 1]
    /\ UNCHANGED << gameVars, ev >>

\* One frame: setBoat's first updater applied to the boat
SteerTick ==
    /\ gen.pc = "steer"
    /\ gen.n < MaxSteerTicks
    /\ gen' = [gen EXCEPT !.boat = Kinematics(gen.boat, upgradesRef, windRef, gen.keys),
                          !.n = gen.n + 1]
    /\ UNCHANGED << gameVars, ev >>

NextSteer ==
    \/ \E code \in KeyCodes : SteerKeyDown(code)
    \/ \E code \in KeyCodes : SteerKeyUp(code)
    \/ \E direction \in { "left", "right", "none" } : SteerTouch(direction)
    \/ SteerTick

SpecSteer == SteerInit /\ [][NextSteer]_vars

\* gen' is gen after one more frame of the steering specification
SteerTickStep == gen.pc = "steer" /\ gen'.n = gen.n + 1

----------------------------------------------------------------------------
(* The boat's speed over a run: a boat under way at some level, with the    *)
(* upgrades loaded from a stored entry, over frames, steering, upgrade      *)
(* codes, and resets of the boat with a change of level                     *)

MaxSpeedTicks == 3
MaxSpeedInputs == 2

\* upgradesRef.current: the stored entries whose speedMultiplier is >= 1
SpeedUpgrades ==
    { u \in { LoadUpgrades(raw) : raw \in StoredEntries } : u.speedMultiplier >= 10 }

\* windRef.current: the wind of levels 1, 2 and 9
SpeedWinds ==
    { [ direction |-> 0, speed |-> currentWindSpeed(l) ] : l \in { 1, 2, 9 } }

\* The largest target speed under a wind and a speedMultiplier (performance 1)
TopTarget(windSpeed, speedMultiplier) ==
    MulDiv(MulDiv(MAX_BOAT_SPEED, TargetWindFactor(windSpeed), 1000), speedMultiplier, 10)

\* prevBoat.speed: at rest, at the largest target speed, and one
\* acceleration step less one unit above it
SpeedsUnderWay(windSpeed, speedMultiplier) ==
    { 0, TopTarget(windSpeed, speedMultiplier),
      TopTarget(windSpeed, speedMultiplier) + MulDiv(ACCELERATION, speedMultiplier, 10) - 1 }

\* Headings across the wind, before it and into it
SpeedHeadings == { PI \div 2, 0, PI }

\* top is the largest speedMultiplier in force so far
SpeedInit ==
    /\ GameInit
    /\ win = [w |-> 1000, h |-> 800]
    /\ highscoreLevel = 1
    /\ Len(rocks) = 2
    /\ \E u \in SpeedUpgrades, w \in SpeedWinds, h \in SpeedHeadings :
          \E s \in SpeedsUnderWay(w.speed, u.speedMultiplier) :
             gen = [ pc |-> "speed",
                     boat |-> [ x |-> 500 * Unit, y |-> 400 * Unit, heading |-> h,
                                speed |-> IF u.hasSail THEN s ELSE 0,
                                rudderAngle |-> 0, sailAngle |-> 0 ],
                     upgrades |-> u, top |-> u.speedMultiplier, wind |-> w,
                     keys |-> {}, n |-> 0, inputs |-> 0 ]

\* One frame: setBoat's first updater applied to the boat
SpeedTick ==
    /\ gen.pc = "speed"
    /\ gen.n < MaxSpeedTicks
    /\ gen' = [gen EXCEPT !.boat = Kinematics(gen.boat, gen.upgrades, gen.wind, gen.keys),
                          !.n = gen.n + 1]
    /\ UNCHANGED << gameVars, ev >>

SpeedInput ==
    /\ gen.pc = "speed"
    /\ gen.inputs < MaxSpeedInputs

\* The player changes the keys held
SpeedSteer ==
    /\ SpeedInput
    /\ \E k \in { {}, { "ArrowLeft" }, { "KeyD" } } \ { gen.keys } :
          gen' = [gen EXCEPT !.keys = k, !.inputs = gen.inputs + 1]
    /\ UNCHANGED << gameVars, ev >>

\* An upgrade code is submitted and the [upgrades] effect has run
SpeedCode ==
    /\ SpeedInput
    /\ \E code \in DOMAIN CleanCode :
          LET u == UpgradesAfterCode(gen.upgrades, CleanCode[code])
          IN  gen' = [gen EXCEPT !.upgrades = u,
                                !.top = Max(gen.top, u.speedMultiplier),
                                !.inputs = gen.inputs + 1]
    /\ UNCHANGED << gameVars, ev >>

\* A goal, a game over or a manual reset: the boat is reset and the wind is
\* that of another level
SpeedLevel ==
    /\ SpeedInput
    /\ \E w \in SpeedWinds \ { gen.wind } :
          gen' = [gen EXCEPT !.boat = ResetBoat(win.w, win.h, gen.wind.direction),
                            !.wind = w,
                            !.inputs = gen.inputs + 1]
    /\ UNCHANGED << gameVars, ev >>

NextSpeed == SpeedTick \/ SpeedSteer \/ SpeedCode \/ SpeedLevel

SpecSpeed == SpeedInit /\ [][NextSpeed]_vars

\* gen' is gen after one more frame of the speed specification
SpeedTickStep == gen.pc = "speed" /\ gen'.n = gen.n + 1

\* speedMultiplier x (5 x 2.2 + 0.05), for a multiplier in tenths
SpeedCap(speedMultiplier) == MulDiv(11 * Unit + ACCELERATION, speedMultiplier, 10)

----------------------------------------------------------------------------
(* The polar performance model on its own: one call per behaviour, for a   *)
(* heading, a second heading a little further round, and a wind            *)

MaxPolarStep == 2

\* heading: every milliradian of the circle
PolarHeadings == (-PI)..PI

\* wind: straight and slanted, from a breeze below 0.6 * WIND_SPEED to the
\* wind of level 9
PolarWinds ==
    { [ direction |-> d, speed |-> s ] :
        d \in { 0, PI \div 4, -(PI \div 6) }, s \in { 6, 15, 24, 39 } }

\* The second heading is 1 .. MaxPolarStep hundred milliradians further round
PolarSteps == { 100 * k : k \in 1..MaxPolarStep } \cup { 1 }

PolarInit ==
    /\ GameInit
    /\ win = [w |-> 1000, h |-> 800]
    /\ highscoreLevel = 1
    /\ Len(rocks) = 2
    /\ \E h \in PolarHeadings, d \in PolarSteps, w \in PolarWinds :
          gen = [ pc |-> "polar", heading |-> h, other |-> h + d, wind |-> w,
                  out |-> [ speed |-> 0, noGo |-> FALSE, otherSpeed |-> 0 ] ]

Polar ==
    /\ gen.pc = "polar"
    /\ gen' = [gen EXCEPT
                 !.pc = "polar-done",
                 !.out = [ speed |-> calculateTargetSpeed(gen.heading, gen.wind),
                           noGo |-> isInNoGoZone(gen.heading, gen.wind.direction),
                           otherSpeed |-> calculateTargetSpeed(gen.other, gen.wind) ]]
    /\ UNCHANGED << gameVars, ev >>

NextPolar == Polar

SpecPolar == PolarInit /\ [][NextPolar]_vars

\* How far, in milliradians, a heading is from pointing straight into the wind
FromUpwind(heading, windDir) == Abs(normalizeAngle(heading - windDir - PI))

----------------------------------------------------------------------------
(* normalizeAngle on its own: one call on an angle, one on its result *)

\* The angles reach MaxTurns full turns either way
MaxTurns == 2

Angles == (-(MaxTurns * TwoPI))..(MaxTurns * TwoPI)

AngleInit ==
    /\ GameInit
    /\ win = [w |-> 1000, h |-> 800]
    /\ highscoreLevel = 1
    /\ Len(rocks) = 2
    /\ \E angle \in Angles :
          gen = [ pc |-> "angle", angle |-> angle, out |-> 0, twice |-> 0 ]

Normalize ==
    /\ gen.pc = "angle"
    /\ gen' = [gen EXCEPT !.pc = "angle-done",
                          !.out = normalizeAngle(gen.angle),
                          !.twice = normalizeAngle(normalizeAngle(gen.angle))]
    /\ UNCHANGED << gameVars, ev >>

NextAngle == Normalize

SpecAngle == AngleInit /\ [][NextAngle]_vars

----------------------------------------------------------------------------
(* Steps of the game, as the claims name them *)

TickStep == ticks' = ticks + 1
HitStep == TickStep /\ ev'.outcome \in Hits
GoalStep == TickStep /\ ev'.outcome = "goal"
GameOverStep == HitStep /\ ev'.over
ManualResetStep == inputs' = inputs + 1 /\ ev'.kind = "reset"

\* The boat stands at the centre of the window, at rest
AtCentreAtRest ==
    /\ boat.x = (win.w * Unit) \div 2
    /\ boat.y = (win.h * Unit) \div 2
    /\ boat.speed = 0
    /\ boat.rudderAngle = 0
    /\ boat.sailAngle = 0

\* rocks' is a field generated for one more rock than rockCount
RegeneratedWithOneMore ==
    /\ rockCount' = rockCount + 1
    /\ \E stream \in GameStreams :
          rocks' = generateRandomRocks(AppRockOpts(rockCount + 1, win.w, win.h), stream).rocks

RocksKept == rocks' = rocks /\ rockCount' = rockCount

----------------------------------------------------------------------------
(* Claims *)

\* C1: in every reachable state lives is an integer between 0 and 5, and
\* when the last frame was a wall or rock hit that took lives to 0, that
\* frame left level = 1 and lives = 5.
C1_LivesRange ==
    /\ lives \in 0..5
    /\ (ev.kind = "tick" /\ ev.over) => (level = 1 /\ lives = 5)

C1_GameOverSeen ==
    ev.kind = "tick" /\ ev.outcome \in Hits /\ ev.over /\ livesRef = 1

\* C2: whatever the interleaving of frames, commits and the effect copying
\* lives into livesRef, every wall or rock hit that happens while lives > 1
\* leaves level unchanged and lives exactly one less than before the hit.
C2_EachHitCostsOneLife ==
    [][(HitStep /\ lives > 1) => (lives' = lives - 1 /\ level' = level)]_vars

\* C3: a frame that reaches the goal raises level by exactly 1 and leaves
\* lives, the rocks, the requested rock count and the upgrades unchanged.
C3_GoalFrame ==
    [][GoalStep => /\ level' = level + 1
                   /\ lives' = lives
                   /\ rocks' = rocks
                   /\ rockCount' = rockCount
                   /\ upgrades' = upgrades]_vars

C3_GoalAfterHit ==
    ev.kind = "tick" /\ ev.outcome = "goal" /\ level = 2 /\ lives = 4

C5_HitFacesWind ==
    (ev.kind = "tick" /\ ev.outcome \in Hits /\ sched = "idle") =>
        /\ AtCentreAtRest
        /\ windRef.direction = windDirection
        /\ boat.heading = normalizeAngle(windDirection + PI)

\* C6: after a frame that reaches the goal, once React has rendered it and
\* re-rolled the wind for the new level, the boat stands at the centre with
\* speed 0 and its heading is normalizeAngle(d + PI), d the re-rolled wind.
C6_GoalFacesNewWind ==
    (ev.kind = "tick" /\ ev.outcome = "goal" /\ sched = "idle") =>
        /\ boat.x = (win.w * Unit) \div 2
        /\ boat.y = (win.h * Unit) \div 2
        /\ boat.speed = 0
        /\ levelDep = level
        /\ windRef.direction = windDirection
        /\ boat.heading = normalizeAngle(windDirection + PI)

\* C7: highscoreLevel never decreases and is at least level in every
\* reachable state; game over and manual reset leave it unchanged.
C7_HighscoreMonotone ==
    /\ [](highscoreLevel >= level)
    /\ [][/\ highscoreLevel' >= highscoreLevel
          /\ (GameOverStep \/ ManualResetStep) => highscoreLevel' = highscoreLevel]_vars

C7_RecordKeptAfterReset ==
    ev.kind = "reset" /\ highscoreLevel = 2 /\ level = 1

\* C8: a manual reset yields level = 1 and lives = 5, requests exactly one
\* rock more than the previous generation, and leaves highscoreLevel and the
\* four upgrade fields unchanged.
C8_ManualReset ==
    [][ManualResetStep =>
          /\ level' = 1
          /\ lives' = 5
          /\ RegeneratedWithOneMore
          /\ highscoreLevel' = highscoreLevel
          /\ upgrades'.hasSail = upgrades.hasSail
          /\ upgrades'.turnMultiplier = upgrades.turnMultiplier
          /\ upgrades'.speedMultiplier = upgrades.speedMultiplier
          /\ upgrades'.revealMap = upgrades.revealMap]_vars

C8_ResetAfterHit ==
    ev.kind = "reset" /\ rockCount = 7 /\ highscoreLevel = 3 /\ livesRef = 4 /\ lives = 5

C10_ReturnedRocksApart ==
    gen.pc = "done" =>
        \A i, j \in 1..Len(gen.out.rocks) :
            i < j =>
                ~DistSqLess(gen.out.rocks[i].x - gen.out.rocks[j].x,
                            gen.out.rocks[i].y - gen.out.rocks[j].y,
                            gen.out.rocks[i].radius + gen.out.rocks[j].radius + 22 * Unit)

\* C11: whatever the options and the random samples, every rock that
\* generateRandomRocks returns has its returned (clamped) centre at least
\* startSafeRadius + radius away from the start point (startX, startY).
C11_ReturnedRocksClearStart ==
    gen.pc = "done" =>
        \A i \in 1..Len(gen.out.rocks) :
            ~DistSqLess(gen.out.rocks[i].x - gen.opts.startX,
                        gen.out.rocks[i].y - gen.opts.startY,
                        gen.opts.startSafeRadius + gen.out.rocks[i].radius)

\* C12: generateRandomRocks ends after at most 3000 sampling attempts in
\* each pass (6000 draws of a candidate in all) and returns at most
\* max(0, count) rocks; when every candidate drawn is rejected (here: lies
\* in the start circle) it returns no rock.
C12_BoundedAttempts ==
    gen.pc = "done" =>
        /\ gen.out.attempts[1] \in 0..3000
        /\ gen.out.attempts[2] \in 0..3000
        /\ gen.out.drawn = gen.out.attempts[1] + gen.out.attempts[2]
        /\ Len(gen.out.rocks) <= Max(0, gen.opts.count)
        /\ (\A k \in 1..Len(gen.stream) :
               /\ NearStart(gen.opts, LeftCandidate(gen.opts, gen.stream[k]))
               /\ NearStart(gen.opts, MainCandidate(gen.opts, gen.stream[k])))
           => gen.out.rocks = << >>

C12_BudgetExhausted ==
    /\ gen.pc = "done"
    /\ gen.opts.count = 2
    /\ gen.out.rocks = << >>
    /\ gen.out.attempts = << 3000, 3000 >>

\* The returned rocks whose centre x is at most limit
RocksLeftOf(limit) == { i \in 1..Len(gen.out.rocks) : gen.out.rocks[i].x <= limit }

\* count >= minLeftCount and the left sub-region [minX, leftMaxX] is not empty
LeftRegionAsked ==
    /\ gen.pc = "done"
    /\ gen.opts.count >= gen.opts.minLeftCount
    /\ minX(gen.opts) <= gen.opts.leftMaxX

C14_SpeedNeverNegative ==
    gen.pc = "sail" => gen.boat.speed >= 0

\* A boat under sail, slower than one DRAG step, has been stopped in irons
C14_SlowBoatStopped ==
    /\ gen.pc = "sail"
    /\ gen.n > 0
    /\ gen.upgrades.hasSail
    /\ gen.prev.speed > 0
    /\ gen.prev.speed < DRAG
    /\ gen.boat.speed = 0

\* The frame gen -> gen' is sailed in irons: the boat has a sail and the
\* heading the frame steers to is in the no-go zone of the wind it uses
InIronsStep ==
    /\ SailTickStep
    /\ gen.upgrades.hasSail
    /\ isInNoGoZone(gen'.boat.heading, gen.wind.direction)

\* C15: under sail, a frame whose heading is in the no-go zone never raises
\* the speed; it lowers a positive speed by at least 0.98 * DRAG or to 0,
\* so the speed is 0 after finitely many such frames, and a speed of 0
\* stays 0.
C15_IronsSlowDown ==
    [][ InIronsStep =>
          /\ gen'.boat.speed <= gen.boat.speed
          /\ gen'.boat.speed <= Max(0, gen.boat.speed - MulDiv(DRAG, 98, 100))
          /\ gen.boat.speed = 0 => gen'.boat.speed = 0 ]_vars

\* Two frames in irons, without any input, have slowed a boat to less than
\* DRAG and then stopped it
C15_StoppedInIrons ==
    /\ gen.pc = "sail"
    /\ gen.n >= 2
    /\ gen.inputs = 0
    /\ gen.upgrades.hasSail
    /\ isInNoGoZone(gen.prev.heading, gen.wind.direction)
    /\ isInNoGoZone(gen.boat.heading, gen.wind.direction)
    /\ gen.prev.speed > 0
    /\ gen.prev.speed < DRAG
    /\ gen.boat.speed = 0

\* C16: calculateTargetSpeed returns 0 exactly when isInNoGoZone holds of
\* the same heading and wind direction, and that is exactly when the
\* heading is less than 45 degrees (PI / 4) away from straight upwind.
C16_ZeroExactlyInNoGoZone ==
    gen.pc = "polar-done" =>
        /\ (gen.out.speed = 0) <=> gen.out.noGo
        /\ gen.out.noGo <=> 4 * FromUpwind(gen.heading, gen.wind.direction) < PI

\* A call for the last heading inside the zone
C16_JustInsideZone ==
    /\ gen.pc = "polar-done"
    /\ 4 * FromUpwind(gen.heading, gen.wind.direction) < PI
    /\ 4 * (FromUpwind(gen.heading, gen.wind.direction) + 1) > PI
    /\ gen.wind.direction # 0
    /\ gen.out.noGo
    /\ gen.out.speed = 0

\* 1000 * angle, in degrees, between a heading and straight upwind
UpwindDeg(heading, windDir) == (FromUpwind(heading, windDir) * 180000) \div PI

C18_NoSailDrift ==
    [][ (SailTickStep /\ ~gen.upgrades.hasSail) =>
          LET drift == (gen.wind.speed * Unit * 2) \div 100
          IN  /\ gen'.boat.x = gen.boat.x + MulDiv(Cos(gen.wind.direction), drift, 1000)
              /\ gen'.boat.y = gen.boat.y + MulDiv(Sin(gen.wind.direction), drift, 1000)
              /\ gen'.boat.speed = MulDiv(gen.boat.speed, 95, 100) ]_vars

\* A boat without sail that kept some speed, heads across a slanted wind
\* and is being steered, after a frame
C18_DriftedWithWay ==
    /\ gen.pc = "sail"
    /\ gen.n > 0
    /\ gen.inputs = 0
    /\ ~gen.upgrades.hasSail
    /\ gen.prev.speed = 5 * Unit
    /\ gen.boat.speed = (5 * Unit * 95) \div 100
    /\ gen.keys # {}
    /\ gen.wind.direction # 0
    /\ gen.boat.y > gen.prev.y

\* upgrades' is upgrades after one of the four upgrade codes
RecognizedCodeStep ==
    /\ inputs' = inputs + 1
    /\ ev'.kind = "code"
    /\ upgrades' \in { [upgrades EXCEPT !.hasSail = TRUE],
                       [upgrades EXCEPT !.turnMultiplier = 30],
                       [upgrades EXCEPT !.speedMultiplier = 15],
                       [upgrades EXCEPT !.revealMap = TRUE] }

\* C19: the upgrades change only when a recognized upgrade code is
\* submitted; every frame, whatever its outcome (none, goal, wall hit, rock
\* hit, game over), and the manual reset leave hasSail, turnMultiplier,
\* speedMultiplier and revealMap as they are.
C19_UpgradesChangeByCodeOnly ==
    [][ /\ upgrades' # upgrades => RecognizedCodeStep
        /\ (TickStep \/ ManualResetStep) => upgrades' = upgrades ]_vars

\* A game over after the sail was installed: the sail is still there
C19_SailKeptAtGameOver ==
    /\ ev.kind = "tick"
    /\ ev.over
    /\ lives = MaxLives
    /\ upgrades.hasSail

\* Submitted codes that are none of the four upgrade codes once lower-cased
\* and trimmed
StrayCodes == { "tur bo", "" }

\* C20: submitting a code that, lower-cased and trimmed, is none of the four
\* upgrade codes leaves the upgrades, the notification message, level, lives
\* and the boat as they are.
C20_StrayCodeChangesNothing ==
    [][ \A code \in StrayCodes :
          (handleUpgradeCode(code) /\ handleUpgradeCodeNotice(code)) =>
              UNCHANGED << upgrades, message, level, lives, boat >> ]_vars

\* A code has been submitted after a wall hit: no upgrade is installed, a
\* life is gone, and the banner of a frame's outcome is displayed
C20_StrayCodeUnderBanner ==
    /\ ev.kind = "code"
    /\ inputs = 1
    /\ upgrades = UpgradeDefaults
    /\ lives < MaxLives
    /\ message # null

\* C21: whatever the stored upgrade entry read at startup and whatever the
\* upgrade codes submitted, turnMultiplier >= 1 and speedMultiplier >= 1 in
\* every reachable state.
C21_MultipliersAtLeastOne ==
    /\ upgrades.turnMultiplier >= 10
    /\ upgrades.speedMultiplier >= 10

\* The largest wind angle of a level: 10 degrees + 5 degrees per level, at most 45
maxAngle(lvl) == Min(PI \div 4, PI \div 18 + (lvl - 1) * (PI \div 36))

\* C22: at every tick the wind the kinematics step uses has the speed
\* 15 + 3 * (level - 1) of the current level and a direction within the
\* largest angle of the current level, also right after a level up, a game
\* over or a manual reset.
C22_TickUsesWindOfLevel ==
    [][TickStep => /\ windRef.speed = currentWindSpeed(level)
                   /\ Abs(windRef.direction) <= maxAngle(level)]_vars

\* C23: last write wins: a tick whose most recent steer input was a press of
\* right (ArrowRight, KeyD or the touch button) turns right, also when a left
\* key pressed earlier is still held.
C23_LastPressWins ==
    [][(SteerTickStep /\ gen.last = "right") => gen'.boat.rudderAngle = 500]_vars

C25_NormalizedHalfOpen ==
    gen.pc = "angle-done" =>
        /\ -PI < gen.out /\ gen.out <= PI
        /\ (gen.out - gen.angle) % TwoPI = 0
        /\ gen.twice = gen.out

\* C26: a frame handled without a sail that causes no reset moves the boat
\* to a strictly larger x, so in a window at least 40 wide, where the boat
\* starts at the centre, no frame reaches the goal and the level never goes
\* up, whatever the steering and however the wind is re-rolled.
C26_DriftsAwayFromGoal ==
    [][(TickStep /\ ~upgradesRef.hasSail) =>
          /\ ev'.outcome = "none" => boat'.x > boat.x
          /\ ev'.outcome # "goal"
          /\ level' <= level]_vars

\* A frame without a sail has moved the boat, after a re-rolled wind and a
\* key press
C26_Drifted ==
    /\ ev.kind = "tick"
    /\ ev.outcome = "none"
    /\ ~upgradesRef.hasSail
    /\ windRef.direction # 0
    /\ keysPressed # {}
    /\ boat.x > (win.w * Unit) \div 2

\* C27: once a manual reset and the effects it triggers have completed, the
\* boat's heading is normalize(d + PI) for the wind direction d then in
\* force, the one the following frames use, whatever the level was.
C27_ResetFacesWind ==
    (ev.kind = "reset" /\ sched = "idle") =>
        /\ windRef.direction = windDirection
        /\ boat.heading = normalizeAngle(windRef.direction + PI)

\* C28: a notification that is displayed is removed only by its own clear
\* timer, the one registered when it was set, which is the last clear timer
\* registered: the clear timer of an earlier notification never removes a
\* later one, however codes, hits, goals and timer expiries interleave.
C28_OwnTimerClears ==
    [][(message # null /\ message' = null) =>
          LET clears == { k \in 1..Len(timers) : timers[k].set = null }
          IN  \E own \in clears :
                 /\ \A k \in clears : k <= own
                 /\ timers' = Without(own)]_vars

\* C29: in a field at least 40 wide and 40 high, unchanged since its rocks
\* were generated, the reset position (the centre) lies outside the wall
\* buffers, the goal buffer and every rock's collision circle (radius + 25):
\* the resolver finds no outcome for a boat that has just been reset.
C29_StartIsClear ==
    (gen.pc \in { "reset", "checked" } /\ gen.field.w >= 40 /\ gen.field.h >= 40) =>
        /\ ~Won(gen.boat.x)
        /\ ~HitWall(gen.boat.x, gen.boat.y, gen.field.w, gen.field.h)
        /\ ~HitRock(gen.boat.x, gen.boat.y, gen.rocks)
        /\ gen.pc = "checked" => gen.outcome = "none"

\* A reset boat has been examined in the smallest field and in one with rocks
C29_StartExamined ==
    /\ gen.pc = "checked"
    /\ gen.field.w = 40
    /\ gen.field.h = 800
    /\ Len(gen.rocks) >= 2

====
